---- MODULE Spec2Model ----
(***************************************************************************)
(* A model of pyddsde: the STLSQ sparse-regression fitter of               *)
(* src/pyddsde/fitters.py (PolyFitBase.fit, PolyFitBase.model_selection,   *)
(* PolyFitBase._get_bic, PolyFit1D, PolyFit2D, Poly2D) and the empirical   *)
(* estimators of src/pyddsde/sde.py (SDE).                                 *)
(*                                                                         *)
(* Floating-point numbers are modelled by integers and exact fractions.    *)
(* The ridge-regression solver (sklearn.linear_model.ridge_regression) is  *)
(* external: the model lets it return any vector over CoefVals of the      *)
(* length the design matrix it is given has columns.                       *)
(***************************************************************************)
EXTENDS Integers, Sequences, FiniteSets, TLC

VARIABLES
    \* ---- fields of one PolyFit1D instance (PolyFitBase.__init__)
    threshold, max_degree, alpha, library,
    \* ---- the frame of PolyFitBase.fit
    fpc,          \* "idle" | "loop" | "exit" | "returned" | "raised"
    x, y,         \* the arguments x, y of the running call
    dictionary,   \* the shape <<rows, columns>> of the local `dictionary`
    ispoly, coeffs, keep, it,
    warned,       \* TRUE once warnings.warn has run in the current call
    solverArg,    \* the last design matrix given to ridge_regression
    result,       \* the value the last call of fit returned
    \* ---- the frame of PolyFitBase.model_selection
    mpc,          \* "idle" | "sweep" | "callfit" | "fitting" | "returned" | "raised"
    thresholds, idx, best_thresh, best_bic, bics, nparams,
    \* ---- the other components, one record each
    poly,         \* a Poly2D object and what was computed from it
    sde,          \* the frame of SDE._drift_and_diffusion / SDE.__call__
    vec           \* the frame of the binning loop of SDE._vector_drift_diff

configVars == <<threshold, max_degree, alpha, library>>
fitVars == <<fpc, x, y, dictionary, ispoly, coeffs, keep, it, warned, solverArg, result>>
msVars == <<mpc, thresholds, idx, best_thresh, best_bic, bics, nparams>>
vars == <<configVars, fitVars, msVars, poly, sde, vec>>

-----------------------------------------------------------------------------
(* Bounds and input domains                                                *)

MaxDegree == 2
MaxLib == 2
MaxThresholds == 2
MaxPolyDegree == 1
MaxSeries == 4
MaxLag == 2

MaxDegreeMS == 2

\* values the external solver may return for one coefficient
CoefVals == {-2, 0, 1}
\* values of the sparsity threshold (a negative one eliminates nothing)
ThreshVals == {-1, 0, 1, 2}
Alphas == {0, 1}
\* the smaller domains of the threshold sweeps
CoefValsMS == {-2, 1}
ThreshValsMS == {0, 1, 2}
\* coefficients of a Poly2D object, the points it is called at and the
\* (x, y) sample arrays a 2D dictionary is built for
PolyCoefVals == {0, 1, 2}
Points == ({0, 2} \X {0, 3}) \cup {<<-1, 2>>}
Samples2D == { [x |-> <<2>>, y |-> <<3>>], [x |-> <<0, 2, -1>>, y |-> <<3, 0, 2>>] }
\* batches of N points (arrays x, y) with the targets that _get_bic compares
\* the model's values with, for N = 1, 2 and 4
Batches == { [x |-> <<2>>, y |-> <<3>>, target |-> <<1>>],
             [x |-> <<1, 2>>, y |-> <<3, 4>>, target |-> <<0, 1>>],
             [x |-> <<0, 1, 1, 2>>, y |-> <<1, 0, 2, 1>>, target |-> <<1, 0, 2, 2>>] }
\* a 1D time series, the settings of the estimator and the models that
\* tune_and_fit may hand back (np.poly1d coefficients, highest degree first)
SeriesVals == {0, 1}
TimeSteps == {1, 2}
Increments == {1}
BinCounts == {1, 3}
OpRanges == {<<>>, <<0, 2>>, <<1>>}
FittedModels == {<<0>>, <<1, 0>>}
\* paired series of the 2D estimator, its settings (bins = 0: not set, the
\* axes come from np.arange) and the constant drift models that tune_and_fit
\* may hand back
VecSeries == { [x |-> <<0, 1, 2>>, y |-> <<1, 1, 0>>],
               [x |-> <<1, 0, 1, 2>>, y |-> <<0, 0, 1, 1>>],
               [x |-> <<0, 2, 1, 0, 2>>, y |-> <<0, 1, 1, 0, 0>>] }
VecBinCounts == {0, 2}
VecRangesX == {<<>>, <<0, 2>>}
VecRangesY == {<<>>, <<1, 3>>}
VecModels == {0, 1}
\* (x, y) arguments of fit: two samples each; the second y has zero variance
Samples == { [x |-> <<0, 1>>, y |-> <<1, -1>>], [x |-> <<0, 1>>, y |-> <<0, 0>>] }

\* no call of ridge_regression yet, no value returned yet, no object
NoCall == [called |-> FALSE, rows |-> 0, cols |-> {}]
NoResult == [kind |-> "none", c |-> <<>>]
Off == [pc |-> "off"]
BicUnset == [k |-> "unset", num |-> 0, den |-> 0]

-----------------------------------------------------------------------------
(* Arithmetic helpers                                                      *)

Abs(a) == IF a < 0 THEN -a ELSE a

\* a ** b of Python for an integer a and b >= 0 (0 ** 0 = 1)
RECURSIVE Pow(_, _)
Pow(a, b) == IF b = 0 THEN 1 ELSE a * Pow(a, b - 1)

RECURSIVE SumSeq(_)
SumSeq(s) == IF s = <<>> THEN 0 ELSE Head(s) + SumSeq(Tail(s))

Zeros(n) == [i \in 1..n |-> 0]

-----------------------------------------------------------------------------
(* PolyFit1D / PolyFit2D: the subclass hooks                               *)

\* A degenerate change of PolyFit1D._get_coeffs: the vector of the previous
\* call is reused when it has the right length.
GetCoeffs1DCached(d) == IF Len(coeffs) = d + 1 THEN coeffs ELSE Zeros(d + 1)

\* PolyFit1D._get_coeffs: np.zeros(self.max_degree + 1)
GetCoeffs1D(d) == Zeros(d + 1)

\* PolyFit2D._get_coeffs: np.zeros((self.max_degree + 1) ** 2)
GetCoeffs2D(d) == Zeros((d + 1) * (d + 1))

\* Shape of the local `dictionary` of fit for n samples:
\* a custom library gives np.array([f(x) for f in self.library]), one ROW per
\* library function; the default is PolyFit1D._get_poly_dictionary, the
\* transpose of one row per degree.
DictionaryShape(lib, d, n) == IF lib # 0 THEN <<lib, n>> ELSE <<n, d + 1>>

\* np.poly1d(np.flipud(coeffs)): poly1d stores the coefficients highest degree
\* first and strips leading zeros (an all-zero vector becomes <<0>>).
Reverse(s) == [i \in 1..Len(s) |-> s[Len(s) + 1 - i]]

RECURSIVE TrimLeadingZeros(_)
TrimLeadingZeros(s) ==
    IF Len(s) <= 1 THEN (IF s = <<>> THEN <<0>> ELSE s)
    ELSE IF Head(s) = 0 THEN TrimLeadingZeros(Tail(s)) ELSE s

GetCallablePoly1D(c) == [kind |-> "poly1d", c |-> TrimLeadingZeros(Reverse(c))]

\* np.poly1d.__call__ at one point (np.polyval: Horner, highest degree first)
RECURSIVE PolyVal(_, _, _)
PolyVal(c, v, acc) == IF c = <<>> THEN acc ELSE PolyVal(Tail(c), v, acc * v + Head(c))

\* np.count_nonzero
CountNonzero(c) == Cardinality({i \in DOMAIN c : c[i] # 0})

-----------------------------------------------------------------------------
(* PolyFitBase.fit                                                         *)

Kept(k) == {i \in DOMAIN k : k[i]}

\* keep = (np.abs(coeffs) > self.threshold)
KeepMask(c, thr) == [i \in DOMAIN c |-> Abs(c[i]) > thr]

\* A degenerate change of line 103: coeffs[:len(coeffs_)] = coeffs_, the solver
\* output lands on the leading indices instead of the kept ones.
ScatterPrefix(c, k, sub) ==
    [i \in DOMAIN c |-> IF i <= Len(sub) THEN sub[i] ELSE c[i]]

\* coeffs[keep] = coeffs_: the j-th kept index takes the j-th solver output
Scatter(c, k, sub) ==
    [i \in DOMAIN c |->
        IF k[i] THEN sub[Cardinality({j \in Kept(k) : j <= i})] ELSE c[i]]

\* A degenerate change of line 105: nothing is zeroed.
ZeroOutNone(c, k) == c

\* coeffs[~keep] = 0
ZeroOut(c, k) == [i \in DOMAIN c |-> IF k[i] THEN c[i] ELSE 0]

FitIdle == fpc \in {"idle", "returned", "raised"}
MSIdle == mpc \in {"idle", "returned", "raised"}

\* fit, lines 85-95: up to the head of the loop
FitEnter(s) ==
    /\ x' = s.x
    /\ y' = s.y
    /\ dictionary' = DictionaryShape(library, max_degree, Len(s.x))
    /\ ispoly' = (library = 0)
    /\ coeffs' = GetCoeffs1D(max_degree)
    /\ keep' = [i \in 1..Len(GetCoeffs1D(max_degree)) |-> TRUE]
    /\ it' = 0
    /\ warned' = FALSE
    /\ solverArg' = NoCall
    /\ result' = NoResult
    /\ fpc' = "loop"
    /\ UNCHANGED <<configVars, poly, sde, vec>>

\* the frame of model_selection when no call of it is on the stack
NoMS ==
    /\ mpc = "idle"
    /\ thresholds = <<>>
    /\ idx = 0
    /\ best_thresh = 0
    /\ best_bic = BicUnset
    /\ bics = <<>>
    /\ nparams = <<>>

\* a caller calls fit(x, y) on the instance (the frame of an earlier
\* model_selection call is gone by then)
FitCall ==
    /\ FitIdle /\ MSIdle
    /\ \E s \in Samples : FitEnter(s)
    /\ mpc' = "idle"
    /\ thresholds' = <<>>
    /\ idx' = 0
    /\ best_thresh' = 0
    /\ best_bic' = BicUnset
    /\ bics' = <<>>
    /\ nparams' = <<>>

\* lines 97-99: nothing is kept; warn and break
FitBreak ==
    /\ fpc = "loop" /\ it < max_degree
    /\ Kept(keep) = {}
    /\ warned' = TRUE
    /\ fpc' = "exit"
    /\ UNCHANGED <<x, y, dictionary, ispoly, coeffs, keep, it, solverArg, result>>
    /\ UNCHANGED <<configVars, msVars, poly, sde, vec>>

\* dictionary[:, keep] needs a mask as long as the matrix has columns
\* (IndexError), ridge_regression a row per entry of y (ValueError)
SolverAccepts == Len(keep) = dictionary[2] /\ dictionary[1] = Len(y)

\* lines 101-105: one pass of regression and thresholding, the solver
\* returning values of V
FitIterOn(V) ==
    /\ fpc = "loop" /\ it < max_degree
    /\ Kept(keep) # {}
    /\ SolverAccepts
    /\ \E coeffs_ \in [1..Cardinality(Kept(keep)) -> V] :
          LET written == Scatter(coeffs, keep, coeffs_)
              mask == KeepMask(written, threshold)
          IN /\ solverArg' = [called |-> TRUE, rows |-> dictionary[1], cols |-> Kept(keep)]
             /\ keep' = mask
             /\ coeffs' = ZeroOut(written, mask)
    /\ it' = it + 1
    /\ UNCHANGED <<fpc, x, y, dictionary, ispoly, warned, result>>
    /\ UNCHANGED <<configVars, msVars, poly, sde, vec>>

FitIter == FitIterOn(CoefVals)

FitIterMS == FitIterOn(CoefValsMS)

\* line 101 raises: the exception leaves fit
FitIterRaise ==
    /\ fpc = "loop" /\ it < max_degree
    /\ Kept(keep) # {}
    /\ ~SolverAccepts
    /\ fpc' = "raised"
    /\ UNCHANGED <<x, y, dictionary, ispoly, coeffs, keep, it, warned, solverArg, result>>
    /\ UNCHANGED <<configVars, msVars, poly, sde, vec>>

\* lines 106-109: the loop is over (budget used up, or break)
FitReturn ==
    /\ \/ fpc = "exit"
       \/ fpc = "loop" /\ it >= max_degree
    /\ result' = IF ispoly THEN GetCallablePoly1D(coeffs)
                 ELSE [kind |-> "array", c |-> coeffs]
    /\ fpc' = "returned"
    /\ UNCHANGED <<x, y, dictionary, ispoly, coeffs, keep, it, warned, solverArg>>
    /\ UNCHANGED <<configVars, msVars, poly, sde, vec>>

-----------------------------------------------------------------------------
(* PolyFitBase._get_bic and PolyFitBase.model_selection                    *)

\* A BIC value. bic = log(n) * dof + n * log(mse) is kept as exp(bic) =
\* n^dof * mse^n, an exact fraction num/den; exp is strictly increasing, so
\* the order of two BIC values is the order of these fractions. The values
\* np.inf, -np.inf and np.nan are kinds of their own.
Bic(k, num, den) == [k |-> k, num |-> num, den |-> den]
BicInf == Bic("inf", 1, 0)
BicNegInf == Bic("-inf", 0, 1)
BicNaN == Bic("nan", 0, 0)

\* _get_bic(p, x, y) for a np.poly1d p:
\*   dof = np.count_nonzero(p); n_samples = len(y)
\*   mse = np.mean((y - p(x)) ** 2) / np.var(y)
\*       = (SSE / n) / ((n * sum(y^2) - sum(y)^2) / n^2)
\*   bic = np.log(n_samples) * dof + n_samples * np.log(mse)
\* 0/0 is nan, a/0 is inf, log(0) is -inf (numpy warns and goes on).
GetBic(p, xs, ys) ==
    LET n == Len(ys)
        dof == CountNonzero(p.c)
        sse == SumSeq([i \in 1..n |-> Pow(ys[i] - PolyVal(p.c, xs[i], 0), 2)])
        varn == n * SumSeq([i \in 1..n |-> ys[i] * ys[i]]) - SumSeq(ys) * SumSeq(ys)
    IN IF varn = 0
       THEN (IF sse = 0 THEN BicNaN ELSE BicInf)
       ELSE IF sse = 0 THEN BicNegInf
       ELSE Bic("fin", Pow(n, dof) * Pow(n * sse, n), Pow(varn, n))

\* A degenerate change of line 133: < instead of <=.
BicLt(a, b) ==
    IF a.k = "nan" \/ b.k = "nan" THEN FALSE
    ELSE IF a.k = "inf" THEN FALSE
    ELSE IF b.k = "-inf" THEN FALSE
    ELSE IF a.k = "-inf" \/ b.k = "inf" THEN TRUE
    ELSE a.num * b.den < b.num * a.den

\* bic <= best_bic on floats: every comparison with nan is False
BicLeq(a, b) ==
    IF a.k = "nan" \/ b.k = "nan" THEN FALSE
    ELSE IF a.k = "-inf" \/ b.k = "inf" THEN TRUE
    ELSE IF a.k = "inf" \/ b.k = "-inf" THEN FALSE
    ELSE a.num * b.den <= b.num * a.den

ThresholdLists == UNION {[1..n -> ThreshValsMS] : n \in 0..MaxThresholds}

\* model_selection, lines 119-124
MSCall ==
    /\ FitIdle /\ MSIdle
    /\ \E ths \in ThresholdLists, s \in Samples :
          /\ thresholds' = ths
          /\ x' = s.x
          /\ y' = s.y
    /\ best_thresh' = 0
    /\ best_bic' = BicInf
    /\ bics' = <<>>
    /\ nparams' = <<>>
    /\ idx' = 1
    /\ mpc' = "sweep"
    /\ UNCHANGED <<fpc, dictionary, ispoly, coeffs, keep, it, warned, solverArg, result>>
    /\ UNCHANGED <<configVars, poly, sde, vec>>

\* lines 125-126: the next candidate becomes self.threshold
MSSetThreshold ==
    /\ mpc = "sweep" /\ idx <= Len(thresholds)
    /\ threshold' = thresholds[idx]
    /\ mpc' = "callfit"
    /\ UNCHANGED <<max_degree, alpha, library, fitVars>>
    /\ UNCHANGED <<thresholds, idx, best_thresh, best_bic, bics, nparams, poly, sde, vec>>

\* line 127: p = self.fit(x, y, weights)
MSFit ==
    /\ mpc = "callfit"
    /\ FitEnter([x |-> x, y |-> y])
    /\ mpc' = "fitting"
    /\ UNCHANGED <<thresholds, idx, best_thresh, best_bic, bics, nparams>>

\* lines 128-135 for a callable p
MSScore ==
    /\ mpc = "fitting" /\ fpc = "returned"
    /\ result.kind = "poly1d"
    /\ LET bic == GetBic(result, x, y)
       IN /\ bics' = Append(bics, bic)
          /\ nparams' = Append(nparams, CountNonzero(result.c))
          /\ IF BicLeq(bic, best_bic)
             THEN best_bic' = bic /\ best_thresh' = thresholds[idx]
             ELSE UNCHANGED <<best_bic, best_thresh>>
    /\ idx' = idx + 1
    /\ mpc' = "sweep"
    /\ UNCHANGED <<thresholds, configVars, fitVars, poly, sde, vec>>

\* fit raised, or line 153 calls p(x) on the raw ndarray a custom library
\* makes fit return (TypeError): the exception leaves model_selection
MSRaise ==
    /\ mpc = "fitting"
    /\ \/ fpc = "raised"
       \/ fpc = "returned" /\ result.kind = "array"
    /\ mpc' = "raised"
    /\ UNCHANGED <<thresholds, idx, best_thresh, best_bic, bics, nparams>>
    /\ UNCHANGED <<configVars, fitVars, poly, sde, vec>>

\* lines 143-144 (the plot of lines 136-142 changes nothing)
MSReturn ==
    /\ mpc = "sweep" /\ idx > Len(thresholds)
    /\ threshold' = best_thresh
    /\ mpc' = "returned"
    /\ UNCHANGED <<max_degree, alpha, library, fitVars>>
    /\ UNCHANGED <<thresholds, idx, best_thresh, best_bic, bics, nparams, poly, sde, vec>>

-----------------------------------------------------------------------------
(* Specification of the fitter under direct fit calls                      *)

InitConfig ==
    /\ threshold \in ThreshVals
    /\ max_degree \in 0..MaxDegree
    /\ alpha \in Alphas
    /\ library \in 0..MaxLib

InitFit ==
    /\ fpc = "idle"
    /\ x = <<>> /\ y = <<>>
    /\ dictionary = <<0, 0>>
    /\ ispoly = TRUE
    /\ coeffs = <<>> /\ keep = <<>>
    /\ it = 0
    /\ warned = FALSE
    /\ solverArg = NoCall
    /\ result = NoResult

InitMS == NoMS

InitOther == poly = Off /\ sde = Off /\ vec = Off

Init == InitConfig /\ InitFit /\ InitMS /\ InitOther

Next == FitCall \/ FitBreak \/ FitIter \/ FitIterRaise \/ FitReturn

Spec == Init /\ [][Next]_vars

InitConfigMS ==
    /\ threshold \in ThreshValsMS
    /\ max_degree \in 0..MaxDegreeMS
    /\ alpha \in Alphas
    /\ library \in {0, 1}

InitSweep == InitConfigMS /\ InitFit /\ InitMS /\ InitOther

NextMS ==
    \/ FitCall \/ FitBreak \/ FitIterMS \/ FitIterRaise \/ FitReturn
    \/ MSCall \/ MSSetThreshold \/ MSFit \/ MSScore \/ MSRaise \/ MSReturn

SpecMS == InitSweep /\ [][NextMS]_vars

-----------------------------------------------------------------------------
(* Poly2D and PolyFit2D._get_poly_dictionary                               *)

\* A degenerate change of lines 19-21: the loops over m and n exchanged.
RECURSIVE Poly2DTermsSwapped(_, _, _, _)
Poly2DTermsSwapped(px, py, d, m) ==
    IF m > d THEN <<>>
    ELSE [n \in 1..(d + 1) |-> Pow(px, n - 1) * Pow(py, m)]
             \o Poly2DTermsSwapped(px, py, d, m + 1)

\* Poly2D.__call__, lines 19-21, at a scalar point: the list
\* [(x ** m) * (y ** n) for m in range(degree + 1) for n in range(degree + 1)]
\* from the m-th outer round on
RECURSIVE Poly2DTerms(_, _, _, _)
Poly2DTerms(px, py, d, m) ==
    IF m > d THEN <<>>
    ELSE [n \in 1..(d + 1) |-> Pow(px, m) * Pow(py, n - 1)]
             \o Poly2DTerms(px, py, d, m + 1)

\* Poly2D.__call__ at a scalar point: coeffs and terms have the same shape, so
\* self.coeffs * terms is the elementwise product; its sum is returned
Poly2DCall(c, d, pt) ==
    LET terms == Poly2DTerms(pt[1], pt[2], d, 0)
        terms_with_coeffs == [i \in 1..Len(c) |-> c[i] * terms[i]]
    IN SumSeq(terms_with_coeffs)

\* Poly2D.__call__, lines 19-21, at arrays xs, ys of N points: np.array of
\* one row per (m, n), each row the N values (xs ** m) * (ys ** n); shape
\* ((degree + 1) ** 2, N)
RECURSIVE Poly2DTermsArray(_, _, _, _)
Poly2DTermsArray(xs, ys, d, m) ==
    IF m > d THEN <<>>
    ELSE [n \in 1..(d + 1) |-> [j \in 1..Len(xs) |-> Pow(xs[j], m) * Pow(ys[j], n - 1)]]
             \o Poly2DTermsArray(xs, ys, d, m + 1)

\* numpy broadcasting of shapes (K,) and (K, N) in self.coeffs * terms
\* (line 23): the trailing axes K and N must be equal or one of them 1;
\* otherwise ValueError
BroadcastsDirectly(K, N) == K = N \/ K = 1 \/ N = 1

\* sum of all the entries of a matrix: ndarray.sum() without an axis
RECURSIVE SumAll(_)
SumAll(mat) == IF mat = <<>> THEN 0 ELSE SumSeq(Head(mat)) + SumAll(Tail(mat))

\* Poly2D.__call__ at arrays of N points, lines 19-27.  Line 23, when the
\* shapes broadcast, multiplies entry [i, j] of terms by coeffs[j] (the
\* coefficient vector lies along the last axis, of length max(K, N)); the
\* except branch, line 25, multiplies row i by coeffs[i].  Line 27 sums
\* every entry of the product, so the value returned is one number.
Poly2DCallArray(c, d, xs, ys) ==
    LET terms == Poly2DTermsArray(xs, ys, d, 0)
        K == Len(c)
        N == Len(xs)
        W == IF K > N THEN K ELSE N
        terms_with_coeffs ==
            IF BroadcastsDirectly(K, N)
            THEN [i \in 1..K |-> [j \in 1..W |->
                     c[IF K = 1 THEN 1 ELSE j] * terms[i][IF N = 1 THEN 1 ELSE j]]]
            ELSE [i \in 1..K |-> [j \in 1..N |-> c[i] * terms[i][j]]]
    IN [shape |-> <<>>, val |-> SumAll(terms_with_coeffs)]

\* y - p(x) of _get_bic, line 153: a value of shape () is broadcast against
\* every entry of y
Residual(target, pv) ==
    [j \in 1..Len(target) |-> target[j] - (IF pv.shape = <<>> THEN pv.val ELSE pv.val[j])]

\* the inner function term(m, n) of Poly2D.__str__
StrTerm(m, n) ==
    LET xterm == IF m = 0 THEN "" ELSE IF m = 1 THEN "x" ELSE "x^" \o ToString(m)
        yterm == IF n = 0 THEN "" ELSE IF n = 1 THEN "y" ELSE "y^" \o ToString(n)
    IN xterm \o yterm

\* terms = [term(m, n) for m in range(degree + 1) for n in range(degree + 1)]
RECURSIVE StrTerms(_, _)
StrTerms(d, m) ==
    IF m > d THEN <<>>
    ELSE [n \in 1..(d + 1) |-> StrTerm(m, n - 1)] \o StrTerms(d, m + 1)

\* ' + '.join
RECURSIVE JoinPlus(_)
JoinPlus(ss) ==
    IF Len(ss) = 1 THEN Head(ss) ELSE Head(ss) \o " + " \o JoinPlus(Tail(ss))

\* Poly2D.__str__: zip stops at the shorter of coeffs and terms
Poly2DStr(c, d) ==
    LET terms == StrTerms(d, 0)
        both == IF Len(c) < Len(terms) THEN Len(c) ELSE Len(terms)
        terms_with_coeffs ==
            SelectSeq([i \in 1..both |-> IF c[i] # 0 THEN ToString(c[i]) \o terms[i] ELSE "skip"],
                      LAMBDA t : t # "skip")
    IN IF terms_with_coeffs # <<>> THEN JoinPlus(terms_with_coeffs) ELSE "0"

\* PolyFit2D._get_poly_dictionary before the transposition: one row per
\* (m, n), holding (x ** m) * (y ** n) for every sample
RECURSIVE DictionaryRows2D(_, _, _, _)
DictionaryRows2D(xs, ys, d, m) ==
    IF m > d THEN <<>>
    ELSE [n \in 1..(d + 1) |-> [k \in 1..Len(xs) |-> Pow(xs[k], m) * Pow(ys[k], n - 1)]]
             \o DictionaryRows2D(xs, ys, d, m + 1)

\* .T of a matrix with `cols` columns
Transpose(mat, cols) == [k \in 1..cols |-> [i \in 1..Len(mat) |-> mat[i][k]]]

\* PolyFit2D._get_poly_dictionary for max_degree d
GetPolyDictionary2D(xs, ys, d) == Transpose(DictionaryRows2D(xs, ys, d, 0), Len(xs))

PolyLengths == {(k + 1) * (k + 1) : k \in 0..MaxPolyDegree}

\* Poly2D(coeffs, degree) is about to be constructed
InitPoly ==
    \E d \in 0..MaxPolyDegree, n \in PolyLengths :
       \E c \in [1..n -> PolyCoefVals] :
          poly = [pc |-> "args", coeffs |-> c, degree |-> d,
                  op |-> "none", arg |-> <<>>, out |-> 0]

\* Poly2D.__init__: the assertion on the number of coefficients
Poly2DInit ==
    /\ poly.pc = "args"
    /\ poly' = [poly EXCEPT !.pc =
                   IF Len(poly.coeffs) = Pow(poly.degree + 1, 2) THEN "ready" ELSE "raised"]
    /\ UNCHANGED <<configVars, fitVars, msVars, sde, vec>>

\* p((x, y)) at a scalar point
PolyCall ==
    /\ poly.pc = "ready"
    /\ \E pt \in Points :
          poly' = [poly EXCEPT !.op = "call", !.arg = pt,
                               !.out = Poly2DCall(poly.coeffs, poly.degree, pt)]
    /\ UNCHANGED <<configVars, fitVars, msVars, sde, vec>>

\* p((x, y)) at arrays of points, and the residual _get_bic takes from it
PolyCallArray ==
    /\ poly.pc = "ready"
    /\ \E b \in Batches :
          LET pv == Poly2DCallArray(poly.coeffs, poly.degree, b.x, b.y)
          IN poly' = [poly EXCEPT !.op = "batch", !.arg = b,
                                  !.out = [shape |-> pv.shape, val |-> pv.val,
                                           residual |-> Residual(b.target, pv)]]
    /\ UNCHANGED <<configVars, fitVars, msVars, sde, vec>>

\* str(p)
PolyStr ==
    /\ poly.pc = "ready"
    /\ poly' = [poly EXCEPT !.op = "str", !.arg = <<>>,
                            !.out = Poly2DStr(poly.coeffs, poly.degree)]
    /\ UNCHANGED <<configVars, fitVars, msVars, sde, vec>>

\* the dictionary a PolyFit2D of max_degree = degree builds for samples s,
\* whose column i the coefficient i of p belongs to
PolyDictionary ==
    /\ poly.pc = "ready"
    /\ \E s \in Samples2D :
          poly' = [poly EXCEPT !.op = "dict", !.arg = s,
                               !.out = GetPolyDictionary2D(s.x, s.y, poly.degree)]
    /\ UNCHANGED <<configVars, fitVars, msVars, sde, vec>>

InitPolySpec ==
    /\ threshold = 0 /\ max_degree = 0 /\ alpha = 0 /\ library = 0
    /\ InitFit /\ InitMS
    /\ InitPoly /\ sde = Off /\ vec = Off

NextPoly == Poly2DInit \/ PolyCall \/ PolyCallArray \/ PolyStr \/ PolyDictionary

SpecPoly == InitPolySpec /\ [][NextPoly]_vars

-----------------------------------------------------------------------------
(* SDE: the 1D estimators and SDE._drift_and_diffusion                     *)
(* An array of floats is a record [num, den]: element i is num[i] / den.   *)

Arr(num, den) == [num |-> num, den |-> den]
NoArr == Arr(<<>>, 1)

Max2(a, b) == IF a > b THEN a ELSE b

SeqMin(q) == CHOOSE v \in {q[i] : i \in DOMAIN q} : \A i \in DOMAIN q : v <= q[i]
SeqMax(q) == CHOOSE v \in {q[i] : i \in DOMAIN q} : \A i \in DOMAIN q : v >= q[i]

\* SDE._drift: (X[Dt:] - X[:-Dt]) / (t_int * Dt)
Drift(X, t_int, Dt) ==
    Arr([i \in 1..(Len(X) - Dt) |-> X[i + Dt] - X[i]], t_int * Dt)

\* SDE._diffusion_from_residual for a np.poly1d F with coefficients f:
\*   residual = (X[dt:] - X[:-dt]) - F(X[:-dt]) * t_int;  residual ** 2 / t_int
DiffusionFromResidual(X, f, t_int, dt) ==
    Arr([i \in 1..(Len(X) - dt) |->
            Pow((X[i + dt] - X[i]) - PolyVal(f, X[i], 0) * t_int, 2)], t_int)

\* SDE._isValidRange: a list or tuple of length 2 (<<>> stands for None)
IsValidRange(r) == Len(r) = 2

\* np.linspace(lo, hi, num): lo + k * (hi - lo) / (num - 1), k = 0..num-1
Linspace(lo, hi, num) ==
    IF num = 1 THEN Arr(<<lo>>, 1)
    ELSE Arr([k \in 1..num |-> lo * (num - 1) + (k - 1) * (hi - lo)], num - 1)

\* np.arange(lo, stop, step) for integers and step > 0
RECURSIVE Arange(_, _, _)
Arange(lo, stop, step) ==
    IF lo >= stop THEN <<>> ELSE <<lo>> \o Arange(lo + step, stop, step)

\* SDE._order_parameter: np.linspace(r[0], r[-1], self.bins) when self.bins
\* is set (truthy), np.arange(min(r), max(r) + inc, inc) otherwise
OrderParameter(X, r, bins, inc) ==
    LET rr == IF IsValidRange(r) THEN r ELSE <<SeqMin(X), SeqMax(X)>>
    IN IF bins # 0 THEN Linspace(rr[1], rr[Len(rr)], bins)
       ELSE Arr(Arange(SeqMin(rr), SeqMax(rr) + inc, inc), 1)

\* np.where(np.logical_and(X < (b + inc), X >= b))[0] for b = op.num[j] / op.den
BinMembers(X, op, j, inc) ==
    SelectSeq([i \in 1..Len(X) |-> i],
              LAMBDA i : /\ X[i] * op.den < op.num[j] + inc * op.den
                         /\ X[i] * op.den >= op.num[j])

\* a[i] for an index array i
Take(a, i) == Arr([k \in 1..Len(i) |-> a.num[i[k]]], a.den)

\* a.mean(): the fraction sum / (count * den); nan for an empty array
Mean(a) ==
    IF a.num = <<>> THEN [nan |-> TRUE, num |-> 0, den |-> 0]
    ELSE [nan |-> FALSE, num |-> SumSeq(a.num), den |-> Len(a.num) * a.den]

\* a.std() / np.sqrt(len(a)), kept as its square var / len:
\* (len * sum(v^2) - sum(v)^2) / (len^3 * den^2); nan for an empty array
StdErrSquared(a) ==
    LET n == Len(a.num)
    IN IF n = 0 THEN [nan |-> TRUE, num |-> 0, den |-> 0]
       ELSE [nan |-> FALSE,
             num |-> n * SumSeq([k \in 1..n |-> a.num[k] * a.num[k]])
                        - SumSeq(a.num) * SumSeq(a.num),
             den |-> n * n * n * a.den * a.den]

Series == UNION {[1..n -> SeriesVals] : n \in 3..MaxSeries}

\* an SDE object with bins and op_range set, and a call about to be made:
\* through __call__ or of _drift_and_diffusion itself
InitSDE ==
    \E X \in Series, Dt \in 1..MaxLag, dt \in 1..MaxLag, t_int \in TimeSteps,
       inc \in Increments, bins \in BinCounts, r \in OpRanges,
       entry \in {"__call__", "_drift_and_diffusion"} :
          /\ Len(X) > Max2(Dt, dt)
          /\ sde = [pc |-> "start", entry |-> entry, bins |-> bins, op_range |-> r,
                    X |-> X, t_int |-> t_int, Dt |-> Dt, dt |-> dt, inc |-> inc,
                    op |-> NoArr, drift |-> NoArr, diff |-> NoArr,
                    F |-> <<>>, G |-> <<>>, Xt |-> <<>>, b |-> 0,
                    avgdiff |-> <<>>, avgdrift |-> <<>>,
                    drift_ebar |-> <<>>, diff_ebar |-> <<>>,
                    drift_num |-> <<>>, diff_num |-> <<>>,
                    steps |-> <<>>, ret |-> {}]

\* SDE.__call__, lines 396-397: self._drift_and_diffusion(X, t_int, Dt, inc)
\* passes four arguments to a method of five parameters (X, t_int, Dt, dt,
\* inc): TypeError, missing argument 'inc'
SDECall ==
    /\ sde.pc = "start" /\ sde.entry = "__call__"
    /\ sde' = [sde EXCEPT !.pc = "raised"]
    /\ UNCHANGED <<configVars, fitVars, msVars, poly, vec>>

\* _drift_and_diffusion, lines 256-258: the order parameter and the drift
SDEDrift ==
    /\ sde.pc = "start" /\ sde.entry = "_drift_and_diffusion"
    /\ sde' = [sde EXCEPT !.op = OrderParameter(sde.X, sde.op_range, sde.bins, sde.inc),
                          !.drift = Drift(sde.X, sde.t_int, sde.Dt),
                          !.steps = Append(@, "drift"),
                          !.pc = "fitF"]
    /\ UNCHANGED <<configVars, fitVars, msVars, poly, vec>>

\* lines 260-261: F = fitter.tune_and_fit(X[:-Dt], drift)
SDEFitF ==
    /\ sde.pc = "fitF"
    /\ \E f \in FittedModels :
          sde' = [sde EXCEPT !.F = f, !.steps = Append(@, "fitF"), !.pc = "diffusion"]
    /\ UNCHANGED <<configVars, fitVars, msVars, poly, vec>>

\* line 262: diff = self._diffusion_from_residual(X, F, t_int, dt=dt)
SDEDiffusion ==
    /\ sde.pc = "diffusion"
    /\ sde' = [sde EXCEPT !.diff = DiffusionFromResidual(sde.X, sde.F, sde.t_int, sde.dt),
                          !.steps = Append(@, "diffusion"),
                          !.pc = "fitG"]
    /\ UNCHANGED <<configVars, fitVars, msVars, poly, vec>>

\* line 263: G = fitter.tune_and_fit(X[:-dt], diff); lines 265-269: the
\* empty lists and X = X[0 : -max(Dt, dt)]
SDEFitG ==
    /\ sde.pc = "fitG"
    /\ \E g \in FittedModels :
          sde' = [sde EXCEPT !.G = g, !.steps = Append(@, "fitG"),
                             !.Xt = SubSeq(sde.X, 1, Len(sde.X) - Max2(sde.Dt, sde.dt)),
                             !.b = 1,
                             !.pc = "bin"]
    /\ UNCHANGED <<configVars, fitVars, msVars, poly, vec>>

\* lines 270-277: one round of the loop over op
SDEBin ==
    /\ sde.pc = "bin" /\ sde.b <= Len(sde.op.num)
    /\ LET i == BinMembers(sde.Xt, sde.op, sde.b, sde.inc)
       IN sde' = [sde EXCEPT !.avgdiff = Append(@, Mean(Take(sde.diff, i))),
                             !.avgdrift = Append(@, Mean(Take(sde.drift, i))),
                             !.drift_ebar = Append(@, StdErrSquared(Take(sde.drift, i))),
                             !.diff_ebar = Append(@, StdErrSquared(Take(sde.diff, i))),
                             !.drift_num = Append(@, Len(i)),
                             !.diff_num = Append(@, Len(i)),
                             !.steps = IF sde.b = 1 THEN Append(@, "bin") ELSE @,
                             !.b = @ + 1]
    /\ UNCHANGED <<configVars, fitVars, msVars, poly, vec>>

\* lines 279-286: the named tuple DD
SDEReturn ==
    /\ sde.pc = "bin" /\ sde.b > Len(sde.op.num)
    /\ sde' = [sde EXCEPT !.ret = {"diff", "drift", "avgdiff", "avgdrift", "op",
                                   "drift_ebar", "diff_ebar", "drift_num", "diff_num",
                                   "F", "G"},
                          !.pc = "returned"]
    /\ UNCHANGED <<configVars, fitVars, msVars, poly, vec>>

InitSDESpec ==
    /\ threshold = 0 /\ max_degree = 0 /\ alpha = 0 /\ library = 0
    /\ InitFit /\ InitMS
    /\ poly = Off /\ InitSDE /\ vec = Off

NextSDE ==
    SDECall \/ SDEDrift \/ SDEFitF \/ SDEDiffusion \/ SDEFitG \/ SDEBin \/ SDEReturn

SpecSDE == InitSDESpec /\ [][NextSDE]_vars

-----------------------------------------------------------------------------
(* SDE._vector_drift_diff                                                  *)

\* SDE._diffusion_x_from_residual / _diffusion_y_from_residual for a drift
\* model that is the constant a: ((u[dt:] - u[:-dt]) - a * t_int) ** 2 / t_int
DiffusionUFromResidual(u, a, t_int, dt) ==
    Arr([i \in 1..(Len(u) - dt) |-> Pow((u[i + dt] - u[i]) - a * t_int, 2)], t_int)

\* u[dt:] - u[:dt] of _diffusion_xy_from_residual under numpy broadcasting:
\* shapes (N - dt,) and (dt,) must be equal or one of them 1
BroadcastOk(N, dt) == N - dt = dt \/ dt = 1 \/ N - dt = 1

HeadDiff(u, dt) ==
    LET N == Len(u)
    IN IF N - dt = dt THEN [i \in 1..dt |-> u[i + dt] - u[i]]
       ELSE IF dt = 1 THEN [i \in 1..(N - 1) |-> u[i + 1] - u[1]]
       ELSE [i \in 1..dt |-> u[N] - u[i]]

\* SDE._diffusion_xy_from_residual for constant drift models a1, a2:
\*   residual_x = (x[dt:] - x[:dt]) - drift_x, residual_y likewise;
\*   residual_x * residual_y / dt * t_int
DiffusionXYFromResidual(xs, ys, a1, a2, t_int, dt) ==
    Arr([i \in 1..Len(HeadDiff(xs, dt)) |->
            (HeadDiff(xs, dt)[i] - a1) * (HeadDiff(ys, dt)[i] - a2) * t_int], dt)

ZeroCell == [nan |-> FALSE, num |-> 0, den |-> 1]

\* np.zeros((len(op_x), len(op_y))), indexed from 0
ZeroGrid(rows, cols) == [c \in (0..(rows - 1)) \X (0..(cols - 1)) |-> ZeroCell]

\* the index array i of lines 354-359 for the loop values bin_x, bin_y
\* (fractions bin_x.num / bin_x.den, bin_y.num / bin_y.den)
CellMembers(xt, yt, bin_x, bin_y, inc_x, inc_y) ==
    SelectSeq([i \in 1..Len(xt) |-> i],
              LAMBDA i : /\ xt[i] * bin_x.den < bin_x.num + inc_x * bin_x.den
                         /\ xt[i] * bin_x.den >= bin_x.num
                         /\ yt[i] * bin_y.den < bin_y.num + inc_y * bin_y.den
                         /\ yt[i] * bin_y.den >= bin_y.num)

Edge(op, j) == [num |-> op.num[j], den |-> op.den]

\* a call of _vector_drift_diff on an SDE object with bins, op_x_range and
\* op_y_range set
InitVec ==
    \E s \in VecSeries, Dt \in 1..MaxLag, dt \in 1..MaxLag, bins \in VecBinCounts,
       rx \in VecRangesX, ry \in VecRangesY :
          vec = [pc |-> "start", x |-> s.x, y |-> s.y, Dt |-> Dt, dt |-> dt,
                 t_int |-> 1, inc_x |-> 1, inc_y |-> 1, bins |-> bins,
                 op_x_range |-> rx, op_y_range |-> ry,
                 op_x |-> NoArr, op_y |-> NoArr,
                 driftX |-> NoArr, driftY |-> NoArr,
                 diffusionX |-> NoArr, diffusionY |-> NoArr,
                 diffusionXY |-> NoArr, diffusionYX |-> NoArr,
                 x_ |-> <<>>, y_ |-> <<>>, m |-> 0, n |-> 0,
                 avgdriftX |-> <<>>, avgdriftY |-> <<>>, avgdiffX |-> <<>>,
                 avgdiffY |-> <<>>, avgdiffXY |-> <<>>, avgdiffYX |-> <<>>]

\* lines 313-350: the axes, the drifts, the two fitted drift models A1, A2
\* (constants a1, a2), the residual diffusions, the zero grids and the
\* truncated series; line 336 raises ValueError when x[dt:] and x[:dt] do not
\* broadcast
VecPrepare ==
    /\ vec.pc = "start"
    /\ \E a1 \in VecModels, a2 \in VecModels :
         LET op_x == OrderParameter(vec.x, vec.op_x_range, vec.bins, vec.inc_x)
             op_y == OrderParameter(vec.y, vec.op_y_range, vec.bins, vec.inc_y)
             cut == Len(vec.x) - Max2(vec.Dt, vec.dt)
         IN IF ~BroadcastOk(Len(vec.x), vec.dt)
            THEN vec' = [vec EXCEPT !.pc = "raised"]
            ELSE vec' = [vec EXCEPT
                    !.op_x = op_x, !.op_y = op_y,
                    !.driftX = Drift(vec.x, vec.t_int, vec.Dt),
                    !.driftY = Drift(vec.y, vec.t_int, vec.Dt),
                    !.diffusionX = DiffusionUFromResidual(vec.x, a1, vec.t_int, vec.dt),
                    !.diffusionY = DiffusionUFromResidual(vec.y, a1, vec.t_int, vec.dt),
                    !.diffusionXY =
                        DiffusionXYFromResidual(vec.x, vec.y, a1, a2, vec.t_int, vec.dt),
                    !.diffusionYX =
                        DiffusionXYFromResidual(vec.x, vec.y, a1, a2, vec.t_int, vec.dt),
                    !.avgdriftX = ZeroGrid(Len(op_x.num), Len(op_y.num)),
                    !.avgdriftY = ZeroGrid(Len(op_x.num), Len(op_y.num)),
                    !.avgdiffX = ZeroGrid(Len(op_x.num), Len(op_y.num)),
                    !.avgdiffY = ZeroGrid(Len(op_x.num), Len(op_y.num)),
                    !.avgdiffXY = ZeroGrid(Len(op_x.num), Len(op_y.num)),
                    !.avgdiffYX = ZeroGrid(Len(op_x.num), Len(op_y.num)),
                    !.x_ = SubSeq(vec.x, 1, cut), !.y_ = SubSeq(vec.y, 1, cut),
                    !.m = 0, !.n = 0,
                    !.pc = "loop"]
    /\ UNCHANGED <<configVars, fitVars, msVars, poly, sde>>

\* lines 351-367, one round of the inner loop: `for bin_x in op_y` is the
\* outer loop (counter m), `for bin_y in op_x` the inner one (counter n)
VecCell ==
    /\ vec.pc = "loop"
    /\ vec.m < Len(vec.op_y.num) /\ vec.n < Len(vec.op_x.num)
    /\ LET bin_x == Edge(vec.op_y, vec.m + 1)
           bin_y == Edge(vec.op_x, vec.n + 1)
           i == CellMembers(vec.x_, vec.y_, bin_x, bin_y, vec.inc_x, vec.inc_y)
           at == <<vec.n, vec.m>>
           last == vec.n + 1 = Len(vec.op_x.num)
       IN vec' = [vec EXCEPT
                    !.avgdriftX[at] = Mean(Take(vec.driftX, i)),
                    !.avgdriftY[at] = Mean(Take(vec.driftY, i)),
                    !.avgdiffX[at] = Mean(Take(vec.diffusionX, i)),
                    !.avgdiffY[at] = Mean(Take(vec.diffusionY, i)),
                    !.avgdiffXY[at] = Mean(Take(vec.diffusionXY, i)),
                    !.avgdiffYX[at] = Mean(Take(vec.diffusionYX, i)),
                    !.n = IF last THEN 0 ELSE vec.n + 1,
                    !.m = IF last THEN vec.m + 1 ELSE vec.m]
    /\ UNCHANGED <<configVars, fitVars, msVars, poly, sde>>

\* line 368 (an axis without entries leaves nothing to loop over)
VecReturn ==
    /\ vec.pc = "loop"
    /\ vec.m >= Len(vec.op_y.num) \/ Len(vec.op_x.num) = 0
    /\ vec' = [vec EXCEPT !.pc = "returned"]
    /\ UNCHANGED <<configVars, fitVars, msVars, poly, sde>>

InitVecSpec ==
    /\ threshold = 0 /\ max_degree = 0 /\ alpha = 0 /\ library = 0
    /\ InitFit /\ InitMS
    /\ poly = Off /\ sde = Off /\ InitVec

NextVec == VecPrepare \/ VecCell \/ VecReturn

SpecVec == InitVecSpec /\ [][NextVec]_vars

-----------------------------------------------------------------------------
(* Properties of PolyFitBase.fit                                           *)

InFit == fpc \in {"loop", "exit"}
FitStarts == fpc' = "loop" /\ ~InFit

\* C1: within one fit call the keep mask never grows: an index that is out of
\* the keep mask stays out of it, and its coefficient stays zero, in every
\* later iteration and up to the return, whatever the solver returns.
C1_KeepMaskMonotone ==
    [][InFit =>
         \A i \in DOMAIN keep :
            ~keep[i] => /\ i \in DOMAIN keep' /\ ~keep'[i]
                        /\ i \in DOMAIN coeffs' /\ coeffs'[i] = 0]_vars

\* C1 witness: a second pass has run on a proper, non-leading subset of the
\* columns and some coefficient is still kept.
C1_Witness ==
    /\ fpc = "loop" /\ it >= 2
    /\ solverArg.called
    /\ 1 \notin solverArg.cols /\ solverArg.cols # {}
    /\ Kept(keep) # {}

\* C3: a fit call whose thresholding empties the keep mask emits the warning,
\* returns an all-zero model and never hands the solver an empty set of
\* columns, at whichever iteration of the budget the mask becomes empty.
C3_WarnedWhenAllEliminated ==
    /\ solverArg.called => solverArg.cols # {}
    /\ (fpc = "returned" /\ it > 0 /\ Kept(keep) = {}) =>
          /\ warned
          /\ \A i \in DOMAIN result.c : result.c[i] = 0

\* C4: at the end of every iteration and in the returned vector every
\* coefficient is zero or larger in magnitude than the threshold, and every
\* regression pass gets exactly the columns the previous thresholding kept.
C4_ZeroOrAboveThreshold ==
    /\ [](InFit \/ fpc = "returned" =>
             \A i \in DOMAIN coeffs : coeffs[i] = 0 \/ Abs(coeffs[i]) > threshold)
    /\ [](fpc = "returned" =>
             \A i \in DOMAIN result.c : result.c[i] = 0 \/ Abs(result.c[i]) > threshold)
    /\ [][it' = it + 1 =>
             /\ solverArg'.cols = {i \in DOMAIN keep : keep[i]}
             /\ \A i \in DOMAIN keep : ~keep[i] => coeffs'[i] = coeffs[i]]_vars

\* C4 witness: a fit returned after two passes with one coefficient zeroed by
\* the threshold and another one surviving it.
C4_Witness ==
    /\ fpc = "returned" /\ it >= 2
    /\ threshold >= 1
    /\ \E i, j \in DOMAIN coeffs : coeffs[i] = 0 /\ coeffs[j] # 0
    /\ solverArg.cols # DOMAIN coeffs

\* C6: with a custom library of L callables fit builds a samples x L
\* dictionary, a coefficient vector and a keep mask of L entries, and returns a
\* raw vector of L coefficients.
C6_LibraryAligned ==
    (library # 0 /\ (InFit \/ fpc = "returned")) =>
        /\ dictionary = <<Len(x), library>>
        /\ Len(coeffs) = library
        /\ Len(keep) = library
        /\ fpc = "returned" => (result.kind = "array" /\ Len(result.c) = library)

-----------------------------------------------------------------------------
(* Properties of PolyFitBase.model_selection                               *)

\* the order of two BIC values that are not nan
BicOrder(a, b) ==
    CASE a.k = "-inf" -> TRUE
      [] a.k = "inf" -> b.k = "inf"
      [] OTHER -> CASE b.k = "inf" -> TRUE
                    [] b.k = "-inf" -> FALSE
                    [] OTHER -> a.num * b.den <= b.num * a.den

Scored == {j \in 1..Len(bics) : bics[j].k # "nan"}
Minimal(J) == {j \in J : \A k \in J : BicOrder(bics[j], bics[k])}
Latest(J) == CHOOSE j \in J : \A k \in J : k <= j

\* C2 as stated: after model_selection returns, self.threshold is the
\* candidate of minimal BIC over the whole list, the latest one on a tie.
C2_SelectsArgmin ==
    mpc = "returned" =>
        /\ Len(thresholds) > 0
        /\ Scored = 1..Len(thresholds)
        /\ threshold = thresholds[Latest(Minimal(Scored))]

\* C2 amended: over the candidates whose BIC is not nan the latest one of
\* minimal BIC is selected; with no such candidate (an empty list, or nan
\* everywhere) self.threshold becomes 0.
C2_SelectsArgminOfScored ==
    mpc = "returned" =>
        /\ Len(bics) = Len(thresholds)
        /\ IF Scored = {} THEN threshold = 0
           ELSE threshold = thresholds[Latest(Minimal(Scored))]

\* C2 witness: two different candidates tie on a finite BIC and the later one
\* is selected.
C2_Witness ==
    /\ mpc = "returned" /\ Len(thresholds) = 2
    /\ thresholds[1] # thresholds[2]
    /\ bics[1] = bics[2] /\ bics[1].k = "fin"
    /\ threshold = thresholds[2]

\* C9: fit leaves threshold, max_degree, alpha and library alone and starts
\* from a fresh dictionary, zero coefficients and an all-true keep mask that
\* depend on the configuration and the arguments only; model_selection
\* changes no field but threshold.
C9_Frame ==
    [][/\ (InFit \/ FitStarts) => UNCHANGED configVars
       /\ FitStarts =>
            /\ coeffs' = Zeros(max_degree + 1)
            /\ keep' = [i \in 1..(max_degree + 1) |-> TRUE]
            /\ dictionary' = IF library = 0 THEN <<Len(x'), max_degree + 1>>
                             ELSE <<library, Len(x')>>
            /\ it' = 0 /\ solverArg' = NoCall /\ result' = NoResult /\ ~warned'
       /\ UNCHANGED <<max_degree, alpha, library>>]_vars

\* C9 witness: in a sweep the second fit starts from zero coefficients under
\* a changed threshold, after a first fit that left nonzero coefficients.
C9_Witness ==
    /\ mpc = "fitting" /\ idx = 2
    /\ fpc = "loop" /\ it = 0
    /\ nparams[1] > 0
    /\ thresholds[1] # thresholds[2] /\ threshold = thresholds[2]
    /\ coeffs = Zeros(max_degree + 1)

-----------------------------------------------------------------------------
(* Properties of Poly2D                                                    *)

\* the exponents (m, n) the claim gives index i (0-based) under degree d
ExpX(i, d) == i \div (d + 1)
ExpY(i, d) == i % (d + 1)

\* C7: Poly2D(c, d) at a scalar point (x, y) is the sum over m, n in 0..d of
\* c[m*(d+1)+n] * x^m * y^n, column i of the PolyFit2D dictionary is the same
\* monomial, and so is the i-th term of the string rendering.
C7_RowMajorMonomials ==
    LET d == poly.degree
        c == poly.coeffs
        K == (d + 1) * (d + 1)
    IN /\ (poly.pc = "ready" /\ poly.op = "call") =>
            poly.out = SumSeq([i \in 1..K |->
                          c[i] * Pow(poly.arg[1], ExpX(i - 1, d)) * Pow(poly.arg[2], ExpY(i - 1, d))])
       /\ (poly.pc = "ready" /\ poly.op = "dict") =>
            /\ Len(poly.out) = Len(poly.arg.x)
            /\ \A k \in 1..Len(poly.out) :
                  /\ Len(poly.out[k]) = K
                  /\ Len(poly.out[k]) = Len(GetCoeffs2D(d))
                  /\ \A m, n \in 0..d :
                        poly.out[k][m * (d + 1) + n + 1]
                           = Pow(poly.arg.x[k], m) * Pow(poly.arg.y[k], n)
       /\ (poly.pc = "ready" /\ poly.op = "str") =>
            LET shown == SelectSeq([i \in 1..K |-> i], LAMBDA i : c[i] # 0)
                texts == [j \in 1..Len(shown) |->
                            ToString(c[shown[j]])
                               \o StrTerm(ExpX(shown[j] - 1, d), ExpY(shown[j] - 1, d))]
            IN poly.out = IF shown = <<>> THEN "0" ELSE JoinPlus(texts)

\* C7 witness: the example of the claim, c = [0, 1, 0, 2] and d = 1 at (2, 3),
\* evaluates to 15.
C7_Witness ==
    /\ poly.pc = "ready" /\ poly.op = "call"
    /\ poly.coeffs = <<0, 1, 0, 2>> /\ poly.degree = 1
    /\ poly.arg = <<2, 3>>
    /\ poly.out = 15

\* C11: Poly2D(c, d) called at a batch of N >= 1 points (arrays x, y) yields
\* one value per point, the value for point j being the scalar evaluation at
\* (x[j], y[j]), whether N equals the number of coefficients or not; and the
\* residual y - p(x) of _get_bic is the per-sample residual.
C11_BatchMatchesScalar ==
    (poly.pc = "ready" /\ poly.op = "batch") =>
        LET N == Len(poly.arg.x)
            at(j) == Poly2DCall(poly.coeffs, poly.degree, <<poly.arg.x[j], poly.arg.y[j]>>)
        IN /\ poly.out.shape = <<N>>
           /\ \A j \in 1..N : poly.out.val[j] = at(j)
           /\ \A j \in 1..N : poly.out.residual[j] = poly.arg.target[j] - at(j)

-----------------------------------------------------------------------------
(* Properties of the 1D pipeline                                           *)

\* C5: a call of the 1D pipeline on a series longer than max(Dt, dt), with
\* bins and op_range set, raises no error, runs drift, fit of F, residual
\* diffusion, fit of G and binning in this order, and returns the bundle of
\* eleven named fields.
C5_PipelineReturns ==
    /\ sde.pc # "raised"
    /\ sde.pc = "returned" =>
          /\ sde.steps = <<"drift", "fitF", "diffusion", "fitG", "bin">>
          /\ sde.ret = {"diff", "drift", "avgdiff", "avgdrift", "op", "drift_ebar",
                        "diff_ebar", "drift_num", "diff_num", "F", "G"}

\* C8: the drift and diffusion arrays that are binned and returned have the
\* length len(X) - max(Dt, dt) of the truncated series, for equal and for
\* different lags.
C8_TruncatedToOverlap ==
    sde.pc \in {"bin", "returned"} =>
        LET p == Len(sde.X) - Max2(sde.Dt, sde.dt)
        IN /\ Len(sde.Xt) = p
           /\ Len(sde.drift.num) = p
           /\ Len(sde.diff.num) = p

-----------------------------------------------------------------------------
(* Properties of the 2D binning                                            *)

\* the samples the claim puts in cell (n, m): x in [op_x[n], op_x[n] + inc_x)
\* and y in [op_y[m], op_y[m] + inc_y)
ClaimedMembers(n, m) ==
    SelectSeq([k \in 1..Len(vec.x_) |-> k],
              LAMBDA k : /\ vec.x_[k] * vec.op_x.den >= vec.op_x.num[n + 1]
                         /\ vec.x_[k] * vec.op_x.den
                               < vec.op_x.num[n + 1] + vec.inc_x * vec.op_x.den
                         /\ vec.y_[k] * vec.op_y.den >= vec.op_y.num[m + 1]
                         /\ vec.y_[k] * vec.op_y.den
                               < vec.op_y.num[m + 1] + vec.inc_y * vec.op_y.den)

\* C10: every averaged grid has shape len(op_x) x len(op_y) and its cell
\* (n, m) is the mean over the samples with x in the n-th bin of op_x and y in
\* the m-th bin of op_y, not-a-number for a cell without samples.
C10_CellsAreBinMeans ==
    vec.pc = "returned" =>
        LET cells == (0..(Len(vec.op_x.num) - 1)) \X (0..(Len(vec.op_y.num) - 1))
        IN /\ DOMAIN vec.avgdriftX = cells
           /\ \A c \in cells :
                LET k == ClaimedMembers(c[1], c[2])
                IN /\ vec.avgdriftX[c] = Mean(Take(vec.driftX, k))
                   /\ vec.avgdriftY[c] = Mean(Take(vec.driftY, k))
                   /\ vec.avgdiffX[c] = Mean(Take(vec.diffusionX, k))
                   /\ vec.avgdiffY[c] = Mean(Take(vec.diffusionY, k))
                   /\ vec.avgdiffXY[c] = Mean(Take(vec.diffusionXY, k))
                   /\ vec.avgdiffYX[c] = Mean(Take(vec.diffusionYX, k))

====
